---- MODULE Spec2Model ----
(***************************************************************************)
(* Model of estereo.py: handling of stereo channels in WAVE files.         *)
(*                                                                         *)
(* A file is the sequence of its bytes (0..255); the file system fs maps   *)
(* the names of the files that exist to their contents.  Every public      *)
(* function of the module is one action; hist records, for every call,     *)
(* its arguments, the file system it found and the outcome.                *)
(*                                                                         *)
(* Python integers are unbounded.  Values that can exceed 2^31 - 1 (the    *)
(* 'I' header fields and what is computed from them) are kept as pairs     *)
(* <<hi, lo>> standing for hi * 65536 + lo, with 0 <= lo < 65536.          *)
(***************************************************************************)
EXTENDS Integers, Sequences, FiniteSets, TLC

VARIABLES fs, hist

vars == <<fs, hist>>

(* ---------------------------------------------------------------- bounds *)
MaxOps == 2

(* ------------------------------------------------------------- utilities *)
Min(a, b) == IF a < b THEN a ELSE b

Max(a, b) == IF a > b THEN a ELSE b

\* b[i:j] of Python for 0 <= i <= j
Slice(b, i, j) == SubSeq(b, i + 1, Min(j, Len(b)))

RECURSIVE Concat(_)
Concat(ss) == IF ss = <<>> THEN <<>> ELSE Head(ss) \o Concat(Tail(ss))

\* the slices b[i:i+w] for i in range(0, len(b), w)
Bloques(b, w) == [k \in 1..((Len(b) + w - 1) \div w) |-> Slice(b, (k - 1) * w, k * w)]

\* wide integers
W(n) == <<n \div 65536, n % 65536>>

WSuma(w, n) == <<w[1] + (w[2] + n) \div 65536, (w[2] + n) % 65536>>

\* (w * q) // 8 for a small q >= 0
WMulDiv8(w, q) ==
    LET l0 == w[2] * q
        h0 == w[1] * q + l0 \div 65536
        lo == l0 % 65536
    IN  <<h0 \div 8, ((h0 % 8) * 65536 + lo) \div 8>>

\* min(len, w) for a small len
WMin(len, w) == IF w[1] > 0 THEN len ELSE Min(len, w[2])

(* ------------------------------------------------------ struct pack/unpack *)
\* struct.pack raises struct.error when the value is out of the range of
\* the format; the Cabe* predicates are the range checks.
CabeI(w) == w[1] \in 0..65535

CabeH(n) == n \in 0..65535

Cabeh(n) == n \in -32768..32767

Cabei(n) == n \in -2147483647 - 1..2147483647

PackI(w) == <<w[2] % 256, w[2] \div 256, w[1] % 256, w[1] \div 256>>

PackH(n) == <<n % 256, n \div 256>>

\* two's complement, little-endian
Packh(n) == <<n % 256, (n \div 256) % 256>>

Packi(n) == <<n % 256, (n \div 256) % 256, (n \div 65536) % 256, (n \div 16777216) % 256>>

UnpackI(b) == <<b[3] + 256 * b[4], b[1] + 256 * b[2]>>

UnpackH(b) == b[1] + 256 * b[2]

Unpackh(b) == LET u == b[1] + 256 * b[2] IN IF u >= 32768 THEN u - 65536 ELSE u

Unpacki(b) ==
    b[1] + 256 * b[2] + 65536 * b[3] + 16777216 * (IF b[4] >= 128 THEN b[4] - 256 ELSE b[4])

(* ------------------------------------------------------------ header tags *)
RIFF == <<82, 73, 70, 70>>

WAVE == <<87, 65, 86, 69>>

FMT == <<102, 109, 116, 32>>

DATA == <<100, 97, 116, 97>>

TamCabecera == 44

(* ------------------------------------------------------ leer_cabecera_wav *)
SinParams == [canales |-> 0, frecuencia |-> W(0), bits_per_sample |-> 0, data_tamanyo |-> W(0)]

\* variant: the data tag is not compared
CabeceraValidaSinData(c) ==
    /\ SubSeq(c, 1, 4) = RIFF
    /\ SubSeq(c, 9, 12) = WAVE
    /\ SubSeq(c, 13, 16) = FMT

\* the check of the four tags of the unpacked header
CabeceraValida(c) ==
    /\ SubSeq(c, 1, 4) = RIFF
    /\ SubSeq(c, 9, 12) = WAVE
    /\ SubSeq(c, 13, 16) = FMT
    /\ SubSeq(c, 37, 40) = DATA

leer_cabecera_wav(f, archivo) ==
    IF archivo \notin DOMAIN f
    THEN [res |-> "FileNotFoundError", params |-> SinParams, cabecera |-> <<>>]
    ELSE LET cabecera == Slice(f[archivo], 0, TamCabecera)
         IN  IF Len(cabecera) # TamCabecera
             THEN [res |-> "ValueError", params |-> SinParams, cabecera |-> cabecera]
             ELSE IF ~CabeceraValida(cabecera)
             THEN [res |-> "ValueError", params |-> SinParams, cabecera |-> cabecera]
             ELSE [res |-> "ok",
                   params |-> [canales |-> UnpackH(SubSeq(cabecera, 23, 24)),
                               frecuencia |-> UnpackI(SubSeq(cabecera, 25, 28)),
                               bits_per_sample |-> UnpackH(SubSeq(cabecera, 35, 36)),
                               data_tamanyo |-> UnpackI(SubSeq(cabecera, 41, 44))],
                   cabecera |-> cabecera]

\* infile.seek(44); infile.read(data_tamanyo)
LeerDatos(f, archivo, data_tamanyo) ==
    LET resto == Slice(f[archivo], TamCabecera, Len(f[archivo]))
    IN  Slice(resto, 0, WMin(Len(resto), data_tamanyo))

(* -------------------------------------------------- escribir_cabecera_wav *)
\* open(archivo, 'wb'): the file exists and is empty
Truncar(f, archivo) == [n \in DOMAIN f \cup {archivo} |-> IF n = archivo THEN <<>> ELSE f[n]]

\* open(archivo, 'ab') and write
Anyadir(f, archivo, b) ==
    [n \in DOMAIN f \cup {archivo} |->
        IF n = archivo THEN (IF n \in DOMAIN f THEN f[n] ELSE <<>>) \o b ELSE f[n]]

\* the fields struct.pack receives, in the order of the format
CamposCabecera(params, data_tamanyo) ==
    [riff_tamanyo |-> WSuma(data_tamanyo, 36),
     longitud_fmt |-> W(16),
     formato |-> 1,
     canales |-> params.canales,
     frecuencia |-> params.frecuencia,
     bps |-> WMulDiv8(params.frecuencia, params.canales * params.bits_per_sample),
     block_align |-> (params.canales * params.bits_per_sample) \div 8,
     bits_per_sample |-> params.bits_per_sample,
     data_tamanyo |-> data_tamanyo]

CabenCampos(c) ==
    /\ CabeI(c.riff_tamanyo) /\ CabeI(c.longitud_fmt) /\ CabeH(c.formato)
    /\ CabeH(c.canales) /\ CabeI(c.frecuencia) /\ CabeI(c.bps)
    /\ CabeH(c.block_align) /\ CabeH(c.bits_per_sample) /\ CabeI(c.data_tamanyo)

\* variant: block_align and bits_per_sample written in each other's place
PackCabeceraCruzada(c) ==
    RIFF \o PackI(c.riff_tamanyo) \o WAVE \o FMT \o PackI(c.longitud_fmt)
         \o PackH(c.formato) \o PackH(c.canales) \o PackI(c.frecuencia) \o PackI(c.bps)
         \o PackH(c.bits_per_sample) \o PackH(c.block_align) \o DATA \o PackI(c.data_tamanyo)

PackCabecera(c) ==
    RIFF \o PackI(c.riff_tamanyo) \o WAVE \o FMT \o PackI(c.longitud_fmt)
         \o PackH(c.formato) \o PackH(c.canales) \o PackI(c.frecuencia) \o PackI(c.bps)
         \o PackH(c.block_align) \o PackH(c.bits_per_sample) \o DATA \o PackI(c.data_tamanyo)

escribir_cabecera_wav(f, archivo, params, data_tamanyo) ==
    LET abierto == Truncar(f, archivo)
        campos == CamposCabecera(params, data_tamanyo)
    IN  IF ~CabenCampos(campos)
        THEN [res |-> "struct.error", fs |-> abierto]
        ELSE [res |-> "ok", fs |-> Anyadir(abierto, archivo, PackCabecera(campos))]

\* the tail shared by the four conversions: header, then the samples
EscribirWav(f, archivo, params, out_frames) ==
    LET c == escribir_cabecera_wav(f, archivo, params, W(Len(out_frames)))
    IN  IF c.res # "ok" THEN c
        ELSE [res |-> "ok", fs |-> Anyadir(c.fs, archivo, out_frames)]

(* ------------------------------------------------------------ estereo2mono *)
Canales == 0..3

\* variant: the division by 2 rounds toward zero
operacionTruncada(canal, l, r) ==
    CASE canal = 0 -> l
      [] canal = 1 -> r
      [] canal = 2 -> IF l + r >= 0 THEN (l + r) \div 2 ELSE -((-(l + r)) \div 2)
      [] canal = 3 -> IF l - r >= 0 THEN (l - r) \div 2 ELSE -((-(l - r)) \div 2)

\* variant: the difference is not halved
operacionSinMitad(canal, l, r) ==
    CASE canal = 0 -> l
      [] canal = 1 -> r
      [] canal = 2 -> (l + r) \div 2
      [] canal = 3 -> l - r

\* the table operaciones: 0 left, 1 right, 2 half sum, 3 half difference
operacion(canal, l, r) ==
    CASE canal = 0 -> l
      [] canal = 1 -> r
      [] canal = 2 -> (l + r) \div 2
      [] canal = 3 -> (l - r) \div 2

\* struct.unpack('<hh', b)
Unpackhh(b) == <<Unpackh(SubSeq(b, 1, 2)), Unpackh(SubSeq(b, 3, 4))>>

estereo2mono(f, ficEste, ficMono, canal) ==
    LET h == leer_cabecera_wav(f, ficEste)
    IN  IF h.res # "ok" THEN [res |-> h.res, fs |-> f]
        ELSE IF h.params.canales # 2 \/ h.params.bits_per_sample # 16
        THEN [res |-> "ValueError", fs |-> f]
        ELSE IF canal \notin Canales THEN [res |-> "KeyError", fs |-> f]
        ELSE LET frames == LeerDatos(f, ficEste, h.params.data_tamanyo)
                 bloques == Bloques(frames, 4)
                 mono == [k \in DOMAIN bloques |->
                            LET lr == Unpackhh(bloques[k]) IN operacion(canal, lr[1], lr[2])]
             IN  IF \E k \in DOMAIN bloques : Len(bloques[k]) # 4
                 THEN [res |-> "struct.error", fs |-> f]
                 ELSE IF \E k \in DOMAIN mono : ~Cabeh(mono[k])
                 THEN [res |-> "struct.error", fs |-> f]
                 ELSE EscribirWav(f, ficMono,
                          [canales |-> 1, frecuencia |-> h.params.frecuencia,
                           bits_per_sample |-> 16],
                          Concat([k \in DOMAIN mono |-> Packh(mono[k])]))

(* ------------------------------------------------------------ mono2estereo *)
\* variant: the right sample is put before the left one
EntrelazarInvertido(frames_left, frames_right) ==
    Concat([k \in 1..((Len(frames_left) + 1) \div 2) |->
              Slice(frames_right, 2 * (k - 1), 2 * k) \o Slice(frames_left, 2 * (k - 1), 2 * k)])

\* the loop that pairs the 2-byte slices of both channels
Entrelazar(frames_left, frames_right) ==
    Concat([k \in 1..((Len(frames_left) + 1) \div 2) |->
              Slice(frames_left, 2 * (k - 1), 2 * k) \o Slice(frames_right, 2 * (k - 1), 2 * k)])

mono2estereo(f, ficIzq, ficDer, ficEste) ==
    LET hi == leer_cabecera_wav(f, ficIzq)
        hd == leer_cabecera_wav(f, ficDer)
    IN  IF hi.res # "ok" THEN [res |-> hi.res, fs |-> f]
        ELSE IF hd.res # "ok" THEN [res |-> hd.res, fs |-> f]
        ELSE IF \/ hi.params.canales # 1 \/ hi.params.bits_per_sample # 16
                \/ hd.params.canales # 1 \/ hd.params.bits_per_sample # 16
                \/ hi.params.frecuencia # hd.params.frecuencia
                \/ hi.params.data_tamanyo # hd.params.data_tamanyo
        THEN [res |-> "ValueError", fs |-> f]
        ELSE EscribirWav(f, ficEste,
                 [canales |-> 2, frecuencia |-> hi.params.frecuencia, bits_per_sample |-> 16],
                 Entrelazar(LeerDatos(f, ficIzq, hi.params.data_tamanyo),
                            LeerDatos(f, ficDer, hd.params.data_tamanyo)))

(* -------------------------------------------------------------- codEstereo *)
\* ((left + right) // 2 << 16) | ((left - right) // 2 & 0xFFFF): the low 16
\* bits of the shifted half sum are zero, so the bitwise or is a sum
encoded_sample(left, right) == ((left + right) \div 2) * 65536 + (((left - right) \div 2) % 65536)

codEstereo(f, ficEste, ficCod) ==
    LET h == leer_cabecera_wav(f, ficEste)
    IN  IF h.res # "ok" THEN [res |-> h.res, fs |-> f]
        ELSE IF h.params.canales # 2 \/ h.params.bits_per_sample # 16
        THEN [res |-> "ValueError", fs |-> f]
        ELSE LET frames == LeerDatos(f, ficEste, h.params.data_tamanyo)
                 bloques == Bloques(frames, 4)
                 cod == [k \in DOMAIN bloques |->
                            LET lr == Unpackhh(bloques[k]) IN encoded_sample(lr[1], lr[2])]
             IN  IF \E k \in DOMAIN bloques : Len(bloques[k]) # 4
                 THEN [res |-> "struct.error", fs |-> f]
                 ELSE IF \E k \in DOMAIN cod : ~Cabei(cod[k])
                 THEN [res |-> "struct.error", fs |-> f]
                 ELSE EscribirWav(f, ficCod,
                          [canales |-> 1, frecuencia |-> h.params.frecuencia,
                           bits_per_sample |-> 32],
                          Concat([k \in DOMAIN cod |-> Packi(cod[k])]))

(* -------------------------------------------------------------- decEstereo *)
\* (encoded_sample >> 16) & 0xFFFF
semi_sum(enc) == (enc \div 65536) % 65536

\* encoded_sample & 0xFFFF, taken as a signed 16-bit value
semi_diff(enc) == LET d == enc % 65536 IN IF d >= 32768 THEN d - 65536 ELSE d

\* max(-32768, min(32767, v))
Recortar(v) == Max(-32768, Min(32767, v))

\* the pair (left, right) before the adjustment to 16 bits
Reconstruir(enc) == <<semi_sum(enc) + semi_diff(enc), semi_sum(enc) - semi_diff(enc)>>

\* variant: the empty payload is not detected
SinDatosNunca(frames) == FALSE

\* "if not frames"
SinDatos(frames) == frames = <<>>

decEstereo(f, ficCod, ficEste) ==
    LET h == leer_cabecera_wav(f, ficCod)
    IN  IF h.res # "ok" THEN [res |-> h.res, fs |-> f]
        ELSE IF h.params.canales # 1 \/ h.params.bits_per_sample # 32
        THEN [res |-> "ValueError", fs |-> f]
        ELSE LET frames == LeerDatos(f, ficCod, h.params.data_tamanyo)
                 bloques == Bloques(frames, 4)
                 lr == [k \in DOMAIN bloques |-> Reconstruir(Unpacki(bloques[k]))]
             IN  IF SinDatos(frames) THEN [res |-> "ValueError", fs |-> f]
                 ELSE IF \E k \in DOMAIN bloques : Len(bloques[k]) # 4
                 THEN [res |-> "struct.error", fs |-> f]
                 ELSE EscribirWav(f, ficEste,
                          [canales |-> 2, frecuencia |-> h.params.frecuencia,
                           bits_per_sample |-> 16],
                          Concat([k \in DOMAIN lr |->
                                    Packh(Recortar(lr[k][1])) \o Packh(Recortar(lr[k][2]))]))

(* ------------------------------------------------------- files at the start *)
Archivos == {"a", "b"}

F8000 == W(8000)

\* a file with a well-formed header declaring data_tamanyo, followed by
\* datos (a byte rate too large for its field is kept modulo 2^32)
Wav(canales, frecuencia, bits, data_tamanyo, datos) ==
    LET c == CamposCabecera([canales |-> canales, frecuencia |-> frecuencia,
                             bits_per_sample |-> bits], data_tamanyo)
    IN  PackCabecera([c EXCEPT !.bps = <<@[1] % 65536, @[2]>>]) \o datos

Muestras16(ms) == Concat([k \in DOMAIN ms |-> Packh(ms[k])])

Estereo(ms) == Wav(2, F8000, 16, W(2 * Len(ms)), Muestras16(ms))

Mono(ms) == Wav(1, F8000, 16, W(2 * Len(ms)), Muestras16(ms))

\* stereo frames (left, right): the extremes of int16, the examples of the
\* documentation, odd and negative sums
Tramas ==
    {<<-32768, -32768>>, <<-32768, 32767>>, <<32767, -32768>>, <<32767, 32767>>,
     <<100, 50>>, <<-100, 50>>, <<0, 0>>, <<1, 0>>, <<-2, -2>>, <<-32768, 1>>,
     <<32767, -32767>>, <<-1, 3>>}

Estructurales ==
    {Estereo(<<100, 50, -100, 50>>),
     Estereo(<<7, 9>>) \o <<1, 2>>,
     Wav(2, F8000, 16, W(6), Muestras16(<<7, 9>>) \o <<1, 2>>),
     Wav(2, F8000, 16, W(4), Muestras16(<<7, 9, 11, 13>>)),
     Wav(2, F8000, 16, W(8), Muestras16(<<7, 9>>)),
     Wav(2, <<32768, 0>>, 16, W(4), Muestras16(<<7, 9>>)),
     Wav(2, F8000, 8, W(4), <<1, 2, 3, 4>>),
     Wav(2, F8000, 16, W(0), <<>>),
     Wav(1, F8000, 32, W(4), <<255, 255, 255, 127>>),
     Wav(1, F8000, 32, W(8), <<5, 0, 10, 0, 254, 255, 3, 0>>),
     Wav(1, <<16384, 0>>, 32, W(4), <<5, 0, 10, 0>>),
     Wav(1, F8000, 32, W(0), <<>>),
     Wav(1, F8000, 32, W(6), <<5, 0, 10, 0, 1, 2>>),
     [Estereo(<<7, 9>>) EXCEPT ![4] = 88],
     [Estereo(<<7, 9>>) EXCEPT ![17] = 18],
     SubSeq(Estereo(<<7, 9>>), 1, 30),
     <<>>}

ParesMono ==
    {<<Mono(<<1, -2>>), Mono(<<300, 32767>>)>>,
     <<Mono(<<-32768>>), Mono(<<-1>>)>>,
     <<Wav(1, F8000, 16, W(3), <<1, 2, 3>>), Wav(1, F8000, 16, W(3), <<4, 5, 6>>)>>,
     <<Wav(1, F8000, 16, W(4), <<1, 2, 3, 4>>), Wav(1, F8000, 16, W(4), <<5, 6>>)>>,
     <<Mono(<<1, -2>>), Wav(1, W(44100), 16, W(4), <<5, 6, 7, 8>>)>>,
     <<Mono(<<1, -2>>), Mono(<<5>>)>>,
     <<Mono(<<1, -2>>), Estereo(<<5, 6>>)>>,
     <<Wav(1, <<16384, 0>>, 16, W(2), <<1, 2>>), Wav(1, <<16384, 0>>, 16, W(2), <<3, 4>>)>>}

SistemasIniciales ==
    {("a" :> Estereo(t)) : t \in Tramas}
        \cup {("a" :> x) : x \in Estructurales}
        \cup {("a" :> p[1] @@ "b" :> p[2]) : p \in ParesMono}

(* ------------------------------------------------------------------ actions *)
Llamada(op, ent, sal, canal, r) ==
    [op |-> op, ent |-> ent, sal |-> sal, canal |-> canal, res |-> r.res,
     pre |-> fs, post |-> r.fs]

Init ==
    /\ fs \in SistemasIniciales
    /\ hist = <<>>

LlamarEstereo2Mono ==
    \E ficEste \in Archivos, ficMono \in Archivos, canal \in Canales :
        LET r == estereo2mono(fs, ficEste, ficMono, canal)
        IN  /\ Len(hist) < MaxOps
            /\ fs' = r.fs
            /\ hist' = Append(hist, Llamada("estereo2mono", <<ficEste>>, ficMono, canal, r))

LlamarMono2Estereo ==
    \E ficIzq \in Archivos, ficDer \in Archivos, ficEste \in Archivos :
        LET r == mono2estereo(fs, ficIzq, ficDer, ficEste)
        IN  /\ Len(hist) < MaxOps
            /\ fs' = r.fs
            /\ hist' = Append(hist, Llamada("mono2estereo", <<ficIzq, ficDer>>, ficEste, 0, r))

LlamarCodEstereo ==
    \E ficEste \in Archivos, ficCod \in Archivos :
        LET r == codEstereo(fs, ficEste, ficCod)
        IN  /\ Len(hist) < MaxOps
            /\ fs' = r.fs
            /\ hist' = Append(hist, Llamada("codEstereo", <<ficEste>>, ficCod, 0, r))

LlamarDecEstereo ==
    \E ficCod \in Archivos, ficEste \in Archivos :
        LET r == decEstereo(fs, ficCod, ficEste)
        IN  /\ Len(hist) < MaxOps
            /\ fs' = r.fs
            /\ hist' = Append(hist, Llamada("decEstereo", <<ficCod>>, ficEste, 0, r))

Next ==
    \/ LlamarEstereo2Mono
    \/ LlamarMono2Estereo
    \/ LlamarCodEstereo
    \/ LlamarDecEstereo

Spec == Init /\ [][Next]_vars

(* --------------------------------------------- the header functions alone *)
\* headers to read: well formed, one tag or the fmt length altered, too short
CabecerasIniciales ==
    {Estereo(<<7, 9>>),
     Wav(1, W(44100), 32, W(0), <<>>),
     [Estereo(<<7, 9>>) EXCEPT ![4] = 88],
     [Estereo(<<7, 9>>) EXCEPT ![9] = 119],
     [Estereo(<<7, 9>>) EXCEPT ![16] = 0],
     [Estereo(<<7, 9>>) EXCEPT ![40] = 65],
     [Estereo(<<7, 9>>) EXCEPT ![17] = 18],
     [Mono(<<>>) EXCEPT ![18] = 1],
     SubSeq(Estereo(<<7, 9>>), 1, 30),
     SubSeq(Estereo(<<7, 9>>), 1, 43)}

\* arguments of escribir_cabecera_wav: <<canales, frecuencia, bits, data_tamanyo>>
ArgumentosCabecera ==
    {<<2, W(44100), 16, W(4)>>,
     <<1, W(8000), 16, W(0)>>,
     <<1, W(8000), 32, W(8)>>,
     <<1, W(8000), 12, W(3)>>,
     <<3, W(44100), 8, W(6)>>,
     <<2, W(96000), 16, <<65535, 65499>>>>,
     <<2, W(96000), 16, <<65535, 65500>>>>,
     <<1, <<32767, 65535>>, 16, W(2)>>,
     <<1, <<32768, 0>>, 16, W(2)>>,
     <<2, <<65535, 65535>>, 16, W(4)>>,
     <<1, W(8000), 65536, W(4)>>,
     <<1, <<65536, 0>>, 8, W(4)>>}

InitCabecera ==
    /\ fs \in {("a" :> c) : c \in CabecerasIniciales} \cup {<<>>}
    /\ hist = <<>>

LlamarEscribirCabecera ==
    \E archivo \in Archivos, a \in ArgumentosCabecera :
        LET params == [canales |-> a[1], frecuencia |-> a[2], bits_per_sample |-> a[3]]
            r == escribir_cabecera_wav(fs, archivo, params, a[4])
        IN  /\ Len(hist) < MaxOps
            /\ fs' = r.fs
            /\ hist' = Append(hist, [op |-> "escribir_cabecera_wav", archivo |-> archivo,
                                     res |-> r.res, pre |-> fs, post |-> r.fs,
                                     params |-> [canales |-> a[1], frecuencia |-> a[2],
                                                 bits_per_sample |-> a[3],
                                                 data_tamanyo |-> a[4]]])

LlamarLeerCabecera ==
    \E archivo \in Archivos :
        LET r == leer_cabecera_wav(fs, archivo)
        IN  /\ Len(hist) < MaxOps
            /\ fs' = fs
            /\ hist' = Append(hist, [op |-> "leer_cabecera_wav", archivo |-> archivo,
                                     res |-> r.res, pre |-> fs, post |-> fs,
                                     params |-> r.params])

NextCabecera ==
    \/ LlamarEscribirCabecera
    \/ LlamarLeerCabecera

SpecCabecera == InitCabecera /\ [][NextCabecera]_vars

(* --------------------------------------------------------------- properties *)
\* the samples an operation reads from a file whose header it accepted
Carga(f, archivo) == LeerDatos(f, archivo, leer_cabecera_wav(f, archivo).params.data_tamanyo)

\* what follows the 44 bytes of the header in a file
Cuerpo(b) == SubSeq(b, TamCabecera + 1, Len(b))

Aceptada(f, archivo) == leer_cabecera_wav(f, archivo).res = "ok"

EsFormato(f, archivo, canales, bits) ==
    /\ Aceptada(f, archivo)
    /\ leer_cabecera_wav(f, archivo).params.canales = canales
    /\ leer_cabecera_wav(f, archivo).params.bits_per_sample = bits

\* the 16-bit samples of a byte sequence of even length
Muestras(b) == [k \in 1..(Len(b) \div 2) |-> Unpackh(SubSeq(b, 2 * k - 1, 2 * k))]

Conversiones == {"estereo2mono", "mono2estereo", "codEstereo", "decEstereo"}

\* call j reads the file that call i wrote, as call i left it
Encadenadas(i, j) ==
    /\ i < j
    /\ hist[i].res = "ok"
    /\ hist[j].ent[1] = hist[i].sal
    /\ hist[j].pre[hist[i].sal] = hist[i].post[hist[i].sal]

\* C1: codEstereo followed by decEstereo gives back, byte for byte, every
\* stereo payload of complete frames whose samples lie in -32767..32767 (read
\* for payloads of at least one frame: decEstereo refuses an empty payload).
C1_IdaYVuelta ==
    \A i, j \in DOMAIN hist :
        (Encadenadas(i, j) /\ hist[i].op = "codEstereo" /\ hist[j].op = "decEstereo") =>
            LET p == Carga(hist[i].pre, hist[i].ent[1])
            IN  (/\ p # <<>> /\ Len(p) % 4 = 0
                 /\ \A k \in DOMAIN Muestras(p) : Muestras(p)[k] \in -32767..32767)
                    => /\ hist[j].res = "ok"
                       /\ Cuerpo(hist[j].post[hist[j].sal]) = p

\* C2 as stated: mono2estereo of two payloads of the same byte length, then
\* estereo2mono with canal 0 (1), succeeds and gives back the left (right)
\* payload.
C2_MezclaYSeparacion ==
    \A i, j \in DOMAIN hist :
        (/\ Encadenadas(i, j) /\ hist[i].op = "mono2estereo"
         /\ hist[j].op = "estereo2mono" /\ hist[j].canal \in {0, 1}) =>
            LET L == Carga(hist[i].pre, hist[i].ent[1])
                R == Carga(hist[i].pre, hist[i].ent[2])
            IN  Len(L) = Len(R)
                    => /\ hist[j].res = "ok"
                       /\ Cuerpo(hist[j].post[hist[j].sal]) = (IF hist[j].canal = 0 THEN L ELSE R)

\* C2 amended: the same, for payloads of the same even byte length (whole
\* 16-bit samples).
C2_MezclaYSeparacionPar ==
    \A i, j \in DOMAIN hist :
        (/\ Encadenadas(i, j) /\ hist[i].op = "mono2estereo"
         /\ hist[j].op = "estereo2mono" /\ hist[j].canal \in {0, 1}) =>
            LET L == Carga(hist[i].pre, hist[i].ent[1])
                R == Carga(hist[i].pre, hist[i].ent[2])
            IN  (Len(L) = Len(R) /\ Len(L) % 2 = 0)
                    => /\ hist[j].res = "ok"
                       /\ Cuerpo(hist[j].post[hist[j].sal]) = (IF hist[j].canal = 0 THEN L ELSE R)

C2_Testigo ==
    \E i, j \in DOMAIN hist :
        /\ Encadenadas(i, j) /\ hist[i].op = "mono2estereo"
        /\ hist[j].op = "estereo2mono" /\ hist[j].canal = 1 /\ hist[j].res = "ok"
        /\ Carga(hist[i].pre, hist[i].ent[2]) = Muestras16(<<300, 32767>>)
        /\ Cuerpo(hist[j].post[hist[j].sal]) = Muestras16(<<300, 32767>>)
        /\ Carga(hist[i].pre, hist[i].ent[1]) # Carga(hist[i].pre, hist[i].ent[2])

\* m is the floor of s / 2
EsMitad(m, s) == 2 * m <= s /\ s < 2 * m + 2

\* C3: estereo2mono with canal 2 (3) writes, for every frame and in order,
\* the half sum (half difference) rounded toward minus infinity: (100, 50)
\* gives 75 and 25, (-100, 50) gives -25 and -75.
C3_Semisuma ==
    \A i \in DOMAIN hist :
        (hist[i].op = "estereo2mono" /\ hist[i].res = "ok" /\ hist[i].canal \in {2, 3}) =>
            LET in == Muestras(Carga(hist[i].pre, hist[i].ent[1]))
                out == Muestras(Cuerpo(hist[i].post[hist[i].sal]))
            IN  /\ 2 * Len(out) = Len(in)
                /\ \A k \in DOMAIN out :
                     LET l == in[2 * k - 1]
                         r == in[2 * k]
                         s == IF hist[i].canal = 2 THEN l + r ELSE l - r
                     IN  /\ EsMitad(out[k], s)
                         /\ (l = 100 /\ r = 50) => out[k] = (IF hist[i].canal = 2 THEN 75 ELSE 25)
                         /\ (l = -100 /\ r = 50) => out[k] = (IF hist[i].canal = 2 THEN -25 ELSE -75)

C3_Testigo ==
    \E i \in DOMAIN hist :
        /\ hist[i].op = "estereo2mono" /\ hist[i].res = "ok" /\ hist[i].canal = 3
        /\ Muestras(Carga(hist[i].pre, hist[i].ent[1])) = <<100, 50, -100, 50>>
        /\ Muestras(Cuerpo(hist[i].post[hist[i].sal])) = <<25, -75>>

\* C4: estereo2mono and decEstereo do not fail on a payload whose length is
\* not a multiple of 4: the incomplete frame at the end is ignored and the
\* output holds one result for each complete frame.
C4_ColaIgnorada ==
    \A i \in DOMAIN hist :
        LET c == hist[i]
            e2m == c.op = "estereo2mono" /\ EsFormato(c.pre, c.ent[1], 2, 16)
            dec == c.op = "decEstereo" /\ EsFormato(c.pre, c.ent[1], 1, 32)
        IN  ((e2m \/ dec) /\ Len(Carga(c.pre, c.ent[1])) % 4 # 0) =>
                /\ c.res = "ok"
                /\ Len(Cuerpo(c.post[c.sal])) =
                       (Len(Carga(c.pre, c.ent[1])) \div 4) * (IF e2m THEN 2 ELSE 4)

\* the four tags of a header of at least 44 bytes, byte by byte
EtiquetasExactas(c) ==
    \A k \in 1..4 : c[k] = RIFF[k] /\ c[8 + k] = WAVE[k] /\ c[12 + k] = FMT[k] /\ c[36 + k] = DATA[k]

LecturaDeCabecera(c) ==
    /\ c.op = "leer_cabecera_wav"
    /\ c.archivo \in DOMAIN c.pre
    /\ Len(c.pre[c.archivo]) >= TamCabecera

\* C5 as stated: leer_cabecera_wav accepts a 44-byte header exactly when the
\* four tags match and the fmt chunk length is 16.
C5_EtiquetasYLongitud ==
    \A i \in DOMAIN hist :
        LecturaDeCabecera(hist[i]) =>
            LET c == hist[i].pre[hist[i].archivo]
            IN  hist[i].res = "ok" <=> (EtiquetasExactas(c) /\ SubSeq(c, 17, 20) = <<16, 0, 0, 0>>)

\* C5 amended: leer_cabecera_wav accepts a 44-byte header exactly when the
\* four tags match, and rejects it with ValueError otherwise; the fmt chunk
\* length is not looked at.
C5_Etiquetas ==
    \A i \in DOMAIN hist :
        LecturaDeCabecera(hist[i]) =>
            LET c == hist[i].pre[hist[i].archivo]
            IN  /\ hist[i].res = "ok" <=> EtiquetasExactas(c)
                /\ hist[i].res \in {"ok", "ValueError"}

C5_Testigo ==
    \E i \in DOMAIN hist :
        /\ LecturaDeCabecera(hist[i])
        /\ hist[i].res = "ValueError"
        /\ SubSeq(hist[i].pre[hist[i].archivo], 37, 40) # DATA
        /\ SubSeq(hist[i].pre[hist[i].archivo], 1, 4) = RIFF

\* C6: the 44 bytes escribir_cabecera_wav writes when every field fits are
\* accepted by leer_cabecera_wav, which returns the channel count, sample
\* rate, bits per sample and data size that were written.
C6_CabeceraIdaYVuelta ==
    \A i, j \in DOMAIN hist :
        (/\ i < j /\ hist[i].op = "escribir_cabecera_wav" /\ hist[i].res = "ok"
         /\ hist[j].op = "leer_cabecera_wav" /\ hist[j].archivo = hist[i].archivo
         /\ hist[j].pre[hist[j].archivo] = hist[i].post[hist[i].archivo]) =>
            /\ Len(hist[i].post[hist[i].archivo]) = TamCabecera
            /\ hist[j].res = "ok"
            /\ hist[j].params = hist[i].params

C6_Testigo ==
    \E i, j \in DOMAIN hist :
        /\ i < j /\ hist[i].op = "escribir_cabecera_wav" /\ hist[i].res = "ok"
        /\ hist[j].op = "leer_cabecera_wav" /\ hist[j].archivo = hist[i].archivo
        /\ hist[j].res = "ok"
        /\ hist[i].params = [canales |-> 2, frecuencia |-> W(44100), bits_per_sample |-> 16,
                             data_tamanyo |-> W(4)]
        /\ hist[j].params = hist[i].params

\* the precondition an operation checks on its input files does not hold
FallaPrecondicion(c) ==
    CASE c.op \in {"estereo2mono", "codEstereo"} -> ~EsFormato(c.pre, c.ent[1], 2, 16)
      [] c.op = "decEstereo" ->
            \/ ~EsFormato(c.pre, c.ent[1], 1, 32)
            \/ Carga(c.pre, c.ent[1]) = <<>>
      [] c.op = "mono2estereo" ->
            \/ ~EsFormato(c.pre, c.ent[1], 1, 16)
            \/ ~EsFormato(c.pre, c.ent[2], 1, 16)
            \/ leer_cabecera_wav(c.pre, c.ent[1]).params.frecuencia
                   # leer_cabecera_wav(c.pre, c.ent[2]).params.frecuencia
            \/ leer_cabecera_wav(c.pre, c.ent[1]).params.data_tamanyo
                   # leer_cabecera_wav(c.pre, c.ent[2]).params.data_tamanyo

\* C7: an operation whose precondition fails ends in an error and leaves
\* every file as it was; the output file is neither created nor modified.
C7_SinSalidaSiFalla ==
    \A i \in DOMAIN hist :
        (hist[i].op \in Conversiones /\ FallaPrecondicion(hist[i])) =>
            /\ hist[i].res # "ok"
            /\ hist[i].post = hist[i].pre

C7_Testigo ==
    \E i \in DOMAIN hist :
        /\ hist[i].op = "decEstereo"
        /\ EsFormato(hist[i].pre, hist[i].ent[1], 1, 32)
        /\ Carga(hist[i].pre, hist[i].ent[1]) = <<>>
        /\ hist[i].res = "ValueError"
        /\ hist[i].sal \notin DOMAIN hist[i].post

\* a file with a header that declares exactly the bytes that follow it
Completo(b) ==
    /\ Len(b) >= TamCabecera
    /\ EtiquetasExactas(b)
    /\ UnpackI(SubSeq(b, 41, 44)) = W(Len(b) - TamCabecera)

\* C8: an operation on input files whose headers are accepted either fails
\* and leaves the output file as it was, or succeeds and leaves in it a
\* header and the whole payload; never an empty or header-only file.
C8_TodoONada ==
    \A i \in DOMAIN hist :
        (/\ hist[i].op \in Conversiones
         /\ \A k \in DOMAIN hist[i].ent : Aceptada(hist[i].pre, hist[i].ent[k])) =>
            \/ hist[i].res # "ok" /\ hist[i].post = hist[i].pre
            \/ hist[i].res = "ok" /\ Completo(hist[i].post[hist[i].sal])

\* C9: for what codEstereo wrote, decEstereo computes left and right that
\* already lie in -32768..32767: the adjustment to 16 bits changes nothing.
C9_SinRecorte ==
    \A i, j \in DOMAIN hist :
        (/\ Encadenadas(i, j) /\ hist[i].op = "codEstereo" /\ hist[j].op = "decEstereo"
         /\ Len(Carga(hist[i].pre, hist[i].ent[1])) % 4 = 0) =>
            LET b == Bloques(Carga(hist[j].pre, hist[j].ent[1]), 4)
            IN  \A k \in DOMAIN b :
                    /\ Cabeh(Reconstruir(Unpacki(b[k]))[1])
                    /\ Cabeh(Reconstruir(Unpacki(b[k]))[2])

\* C10: for every frame of int16 samples the half sum and the half
\* difference lie in -32768..32767 and the coded sample in the range of a
\* signed 32-bit integer, so estereo2mono and codEstereo pack every complete
\* frame without error (checked on calls whose sample rate is below 2^30, so
\* that the header of the output fits as well and the call can end well).
C10_SinDesbordamiento ==
    \A i \in DOMAIN hist :
        LET c == hist[i]
        IN  (/\ c.op \in {"estereo2mono", "codEstereo"}
             /\ EsFormato(c.pre, c.ent[1], 2, 16)
             /\ Len(Carga(c.pre, c.ent[1])) % 4 = 0
             /\ leer_cabecera_wav(c.pre, c.ent[1]).params.frecuencia[1] < 16384) =>
                LET in == Muestras(Carga(c.pre, c.ent[1]))
                IN  /\ c.res = "ok"
                    /\ \A k \in 1..(Len(in) \div 2) :
                         /\ Cabeh(operacion(2, in[2 * k - 1], in[2 * k]))
                         /\ Cabeh(operacion(3, in[2 * k - 1], in[2 * k]))
                         /\ Cabei(encoded_sample(in[2 * k - 1], in[2 * k]))

C10_Testigo ==
    \E i, j \in DOMAIN hist :
        /\ hist[i].op = "codEstereo" /\ hist[i].res = "ok"
        /\ Muestras(Carga(hist[i].pre, hist[i].ent[1])) = <<32767, -32768>>
        /\ hist[j].op = "estereo2mono" /\ hist[j].res = "ok" /\ hist[j].canal = 3
        /\ Muestras(Carga(hist[j].pre, hist[j].ent[1])) = <<32767, -32768>>
        /\ Muestras(Cuerpo(hist[j].post[hist[j].sal])) = <<32767>>

====
